---- MODULE Spec2Model ----
(***************************************************************************)
(* Model of python/ray/tune/suggest/optuna.py: the OptunaSearch searcher.  *)
(* One OptunaSearch instance is the state; its public methods are the      *)
(* actions.  The Optuna storage, study and trials are modelled by what the *)
(* searcher writes into them.                                              *)
(***************************************************************************)
EXTENDS Integers, Sequences, FiniteSets, TLC

\* ------------------------------------------------------------------ bounds
\* Largest number of times suggest replays the space against one trial.
MaxReplays == 2
\* Largest number of Optuna trials one storage holds.
MaxTrials == 3

\* ------------------------------------------------------------ value domains
None == "None"
\* Absent number (Python None where a number is expected).
NoValue == 0
TrialIds == {"t1", "t2"}
MetricNames == {"loss"}
Modes == {"min", "max"}
\* Metric values a trainable reports (0.4 and 0.5, scaled by ten).
Values == {4, 5}
\* training_iteration values.
Steps == {1}
Threads == {1, 2}

\* --------------------------------------------------------- search-space spec
\* One entry of a flattened config, as parse_spec_vars classifies it:
\* cls is "resolved" (a plain value), "grid" (grid_search) or "domain".
Entry(name, cls, dtype, smp, q) ==
    [name |-> name, cls |-> cls, dtype |-> dtype, sampler |-> smp, q |-> q,
     lower |-> 1, upper |-> 8]

CfgEmpty == << >>
CfgResolved == << Entry("x", "resolved", "-", "-", 0) >>
CfgOne == << Entry("a", "domain", "Float", "Uniform", 0) >>
CfgTwo == << Entry("a", "domain", "Float", "Uniform", 2),
             Entry("b", "domain", "Integer", "LogUniform", 0) >>
CfgGrid == << Entry("a", "domain", "Float", "Uniform", 0),
              Entry("g", "grid", "-", "-", 0) >>
CfgBad == << Entry("a", "domain", "Float", "Normal", 0) >>
Configs == {CfgEmpty, CfgResolved, CfgTwo, CfgGrid, CfgBad}

\* param.<fn>(name, ...): the recorded (fn, args, kwargs) tuple.
Request(fn, name, lower, upper, step, log) ==
    [fn |-> fn, name |-> name, lower |-> lower, upper |-> upper,
     step |-> step, log |-> log]

IsDomain(e) == e.cls = "domain"
IsGrid(e) == e.cls = "grid"
domain_vars(spec) == SelectSeq(spec, IsDomain)
grid_vars(spec) == SelectSeq(spec, IsGrid)

\* type(domain.sampler).__name__ (line 271): the attribute as given, which is
\* the Quantized wrapper when the domain is quantized.
SamplerAttrName(d) == IF d.q # 0 THEN "Quantized" ELSE d.sampler

\* resolve_value: [ok, req, msg] ; ok = FALSE is the ValueError of lines 267-271
\* and msg the two names formatted into its message.
Unsupported(d) ==
    [ok |-> FALSE, req |-> Request("-", "-", 0, 0, 0, FALSE),
     msg |-> << d.dtype, SamplerAttrName(d) >>]
Resolved(r) == [ok |-> TRUE, req |-> r, msg |-> << >>]

\* Mutant: the integer step is the quantization itself, without "or 1".
resolve_value_raw_step(d) ==
    LET quantize == d.q
        sampler == d.sampler
    IN  CASE d.dtype = "Float" /\ sampler = "LogUniform" ->
                Resolved(Request("suggest_loguniform", d.name, d.lower, d.upper, 0, FALSE))
          [] d.dtype = "Float" /\ sampler = "Uniform" /\ quantize # 0 ->
                Resolved(Request("suggest_discrete_uniform", d.name, d.lower, d.upper,
                                 quantize, FALSE))
          [] d.dtype = "Float" /\ sampler = "Uniform" /\ quantize = 0 ->
                Resolved(Request("suggest_uniform", d.name, d.lower, d.upper, 0, FALSE))
          [] d.dtype = "Integer" /\ sampler = "LogUniform" ->
                Resolved(Request("suggest_int", d.name, d.lower, d.upper, 0, TRUE))
          [] d.dtype = "Integer" /\ sampler = "Uniform" ->
                Resolved(Request("suggest_int", d.name, d.lower, d.upper, quantize, FALSE))
          [] d.dtype = "Categorical" /\ sampler = "Uniform" ->
                Resolved(Request("suggest_categorical", d.name, 0, 0, 0, FALSE))
          [] OTHER -> Unsupported(d)

\* quantize and sampler are the unwrapped values of lines 232-236.
resolve_value(d) ==
    LET quantize == d.q
        sampler == d.sampler
    IN  CASE d.dtype = "Float" /\ sampler = "LogUniform" ->
                Resolved(Request("suggest_loguniform", d.name, d.lower, d.upper, 0, FALSE))
          [] d.dtype = "Float" /\ sampler = "Uniform" /\ quantize # 0 ->
                Resolved(Request("suggest_discrete_uniform", d.name, d.lower, d.upper,
                                 quantize, FALSE))
          [] d.dtype = "Float" /\ sampler = "Uniform" /\ quantize = 0 ->
                Resolved(Request("suggest_uniform", d.name, d.lower, d.upper, 0, FALSE))
          [] d.dtype = "Integer" /\ sampler = "LogUniform" ->
                Resolved(Request("suggest_int", d.name, d.lower, d.upper, 0, TRUE))
          [] d.dtype = "Integer" /\ sampler = "Uniform" ->
                Resolved(Request("suggest_int", d.name, d.lower, d.upper,
                                 IF quantize # 0 THEN quantize ELSE 1, FALSE))
          [] d.dtype = "Categorical" /\ sampler = "Uniform" ->
                Resolved(Request("suggest_categorical", d.name, 0, 0, 0, FALSE))
          [] OTHER -> Unsupported(d)

\* The message of lines 225-227.
GridMessage == << "Grid search parameters" >>
Returned(reqs) == [res |-> "ok", space |-> reqs, msg |-> << >>]
Raised(msg) == [res |-> "ValueError", space |-> << >>, msg |-> msg]
\* Index of the first domain whose resolution raises.
FirstFailure(values) ==
    CHOOSE i \in 1..Len(values) :
        ~values[i].ok /\ \A k \in 1..(i - 1) : values[k].ok

\* Mutant: the domains are resolved before the grid parameters are looked at.
convert_resolving_first(spec) ==
    LET dv == domain_vars(spec)
        gv == grid_vars(spec)
        values == [i \in 1..Len(dv) |-> resolve_value(dv[i])]
    IN  IF dv = << >> /\ gv = << >> THEN Returned(<< >>)
        ELSE IF \E i \in 1..Len(dv) : ~values[i].ok
             THEN Raised(values[FirstFailure(values)].msg)
        ELSE IF gv # << >> THEN Raised(GridMessage)
        ELSE Returned([i \in 1..Len(dv) |-> values[i].req])

\* convert_search_space: [res, space, msg]; res is "ok" or the exception raised.
convert_search_space(spec) ==
    LET dv == domain_vars(spec)
        gv == grid_vars(spec)
        values == [i \in 1..Len(dv) |-> resolve_value(dv[i])]
    IN  IF dv = << >> /\ gv = << >> THEN Returned(<< >>)
        ELSE IF gv # << >> THEN Raised(GridMessage)
        ELSE IF \E i \in 1..Len(dv) : ~values[i].ok
             THEN Raised(values[FirstFailure(values)].msg)
        ELSE Returned([i \in 1..Len(dv) |-> values[i].req])

\* ------------------------------------------------- inputs of the conversion
\* Largest number of parameters in a flattened config given to a standalone
\* convert_search_space call.
MaxParams == 2
ParamNames == << "a", "b", "c", "d" >>
DomainTypes == {"Float", "Integer", "Categorical"}
SamplerTypes == {"Uniform", "LogUniform", "Normal"}
\* 0: no Quantized wrapper; 2: tune.quniform(..., 2) and the like.
Quantizations == {0, 2}
\* The entries a config can hold under the name of position i.
EntriesAt(i) ==
    {Entry(ParamNames[i], "domain", dt, smp, q) :
        dt \in DomainTypes, smp \in SamplerTypes, q \in Quantizations}
    \cup {Entry(ParamNames[i], "resolved", "-", "-", 0),
          Entry(ParamNames[i], "grid", "-", "-", 0)}
ConvConfigs ==
    UNION {{c \in [1..n -> UNION {EntriesAt(i) : i \in 1..n}] :
               \A i \in 1..n : c[i] \in EntriesAt(i)} : n \in 0..MaxParams}
NotCalled == [res |-> "-", space |-> << >>, msg |-> << >>]

\* ------------------------------------------------------------------- state
VARIABLES
    space,          \* self._space: [set, reqs]; set = FALSE is Python None
    metric,         \* self._metric
    mode,           \* self._mode
    sampler,        \* self._sampler: number of values drawn from it so far
    pruner,         \* self._pruner
    storage,        \* self._storage: [study, trials]
    ot_trials,      \* self._ot_trials: trial_id -> Optuna trial number, 0 = absent
    ot_study,       \* self._ot_study: None or "Study"
    checkpoint,     \* the checkpoint file: << >> or <<the saved 5-tuple>>
    thr,            \* per thread, the position inside a running suggest call
    saver,          \* self._space and self._metric of the instance at the last save
    call,           \* the last standalone convert_search_space call: [spec, out]
    outcome         \* the last call: [op, arg, res, key, val]

vars == << space, metric, mode, sampler, pruner, storage, ot_trials, ot_study,
           checkpoint, thr, saver, call, outcome >>

NoSpace == [set |-> FALSE, reqs |-> << >>]
ListSpace(reqs) == [set |-> TRUE, reqs |-> reqs]
\* Mutant: the check is `is not None` instead of truthiness.
TruthyIsNotNone(sp) == sp.set
\* Python truthiness of self._space: None and [] are falsy.
Truthy(sp) == sp.set /\ sp.reqs # << >>

EmptyStorage == [study |-> None, trials |-> << >>]
NoTrials == [t \in TrialIds |-> 0]
Idle == [pc |-> "idle", tid |-> None, num |-> 0]
\* The last call: its name, trial_id and result; for on_trial_complete also
\* the metric entry of the result argument it was given.
OutcomeOf(op, arg, res, key, val) ==
    [op |-> op, arg |-> arg, res |-> res, key |-> key, val |-> val]
Outcome(op, arg, res) == OutcomeOf(op, arg, res, "-", NoValue)

Direction(md) == IF md = "min" THEN "minimize" ELSE "maximize"

\* ot.study.create_study(storage, ..., direction, load_if_exists=True): the
\* study named "optuna" is created in the storage, or loaded when it exists.
create_study(st, md) == [st EXCEPT !.study = Direction(md)]

\* No save yet; no standalone convert_search_space call yet.
NoSaver == [space |-> NoSpace, metric |-> None]
NoCall == [spec |-> << >>, out |-> NotCalled]

\* Spaces a constructor call can leave in self._space.
InitSpaces == {NoSpace, ListSpace(<< >>),
               ListSpace(convert_search_space(CfgOne).space)}

\* The instance after __init__ returns.
Constructed ==
    /\ space \in InitSpaces
    /\ metric \in {None, "loss"}
    /\ mode \in {None} \cup Modes
    /\ sampler = 0
    /\ pruner = "NopPruner"
    /\ storage = IF Truthy(space) THEN create_study(EmptyStorage, mode) ELSE EmptyStorage
    /\ ot_trials = NoTrials
    /\ ot_study = IF Truthy(space) THEN "Study" ELSE None
    /\ checkpoint = << >>
    /\ thr = [th \in Threads |-> Idle]
    /\ saver = NoSaver
    /\ outcome = Outcome("init", None, "ok")

Init ==
    /\ Constructed
    /\ call = NoCall

\* ------------------------------------------------------- Optuna collaborators
\* storage.create_new_trial: a fresh RUNNING trial; forId remembers which
\* trial_id's suggest call asked for it.
NewTrial(t) ==
    [state |-> "RUNNING", value |-> NoValue, reports |-> [s \in Steps |-> NoValue],
     asks |-> << >>, forId |-> t]
create_new_trial(st, t) == [st EXCEPT !.trials = Append(@, NewTrial(t))]

\* Mutant: the final value is taken from the last report when there is one.
set_trial_value_from_report(st, num, v) ==
    [st EXCEPT !.trials[num].value =
        IF st.trials[num].reports[1] # NoValue THEN st.trials[num].reports[1] ELSE v]

\* Trial.report(value, step)
report(st, num, v, step) == [st EXCEPT !.trials[num].reports[step] = v]
\* Mutant: the state is written to every trial of the storage.
set_every_trial_state(st, num, s) ==
    [st EXCEPT !.trials = [i \in 1..Len(st.trials) |-> [st.trials[i] EXCEPT !.state = s]]]
\* storage.set_trial_value / storage.set_trial_state
set_trial_value(st, num, v) == [st EXCEPT !.trials[num].value = v]
set_trial_state(st, num, s) == [st EXCEPT !.trials[num].state = s]

\* --------------------------------------------------------------- result dicts
\* A result mapping holds at most one metric key (key = "none": no metric key)
\* and optionally training_iteration (iter = 0: absent).  NoResult is the
\* default argument result=None.
Result(key, val, iter) == [present |-> TRUE, key |-> key, val |-> val, iter |-> iter]
NoResult == [present |-> FALSE, key |-> "none", val |-> NoValue, iter |-> 0]
\* What a call was given as result: "absent", "none" or the metric key.
ArgKey(r) == IF r.present THEN r.key ELSE "absent"
Results == {Result("none", NoValue, i) : i \in {0} \cup Steps}
           \cup {Result(k, v, i) : k \in MetricNames, v \in Values, i \in {0} \cup Steps}
\* Results given at completion: they carry training_iteration, or are absent.
FinalResults == {r \in Results : r.iter # 0} \cup {NoResult}

HasKey(r, k) == k # None /\ r.key = k
\* Mutant: whatever metric the result carries is taken.
GetAnyMetric(r, m) == r.val
\* result.get(self.metric, None)
GetMetric(r, m) == IF HasKey(r, m) THEN r.val ELSE NoValue

\* ------------------------------------------------------------------- suggest
\* Mutant: the membership test is dropped, every call allocates a trial.
AlwaysNew(reg, t) == TRUE
\* Mutant: the lookup never misses.
NeverMissing(reg, t) == FALSE
\* line 173: trial_id not in self._ot_trials
NotRegistered(reg, t) == reg[t] = 0

\* Mutant: the requests are called last to first.
ReplayReversed(st, num, sp) ==
    [st EXCEPT !.trials[num].asks =
        @ \o [i \in 1..Len(sp.reqs) |-> sp.reqs[Len(sp.reqs) + 1 - i]]]
\* lines 181-185: every request of the space is called on the trial, in order.
Replay(st, num, sp) == [st EXCEPT !.trials[num].asks = @ \o sp.reqs]

\* Mutant: every new handle carries the storage's first trial number.
FirstNumber(st) == 1
\* lines 174-177: the new trial's number, the storage and the registry after it.
NewNumber(st) == Len(st.trials) + 1

Suggest(t) ==
    /\ UNCHANGED << saver, call >>
    /\ UNCHANGED << space, metric, mode, pruner, checkpoint, thr, ot_study >>
    /\ IF ~Truthy(space)
       THEN /\ outcome' = Outcome("suggest", t, "RuntimeError")
            /\ UNCHANGED << storage, ot_trials, sampler >>
       ELSE IF NotRegistered(ot_trials, t) /\ ot_study = None
       THEN \* self._ot_study._study_id on None
            /\ outcome' = Outcome("suggest", t, "AttributeError")
            /\ UNCHANGED << storage, ot_trials, sampler >>
       ELSE LET fresh == NotRegistered(ot_trials, t)
                st1 == IF fresh THEN create_new_trial(storage, t) ELSE storage
                reg1 == IF fresh THEN [ot_trials EXCEPT ![t] = NewNumber(storage)]
                        ELSE ot_trials
                num == reg1[t]
            IN  /\ fresh => Len(storage.trials) < MaxTrials
                /\ Len(st1.trials[num].asks) + Len(space.reqs) <= MaxReplays * Len(space.reqs)
                /\ storage' = Replay(st1, num, space)
                /\ ot_trials' = reg1
                /\ sampler' = sampler + Len(space.reqs)
                /\ outcome' = Outcome("suggest", t, "ok")

\* ----------------------------------------------------------- on_trial_result
OnTrialResult(t, r) ==
    /\ UNCHANGED << saver, call >>
    /\ UNCHANGED << space, metric, mode, sampler, pruner, ot_trials, ot_study,
                    checkpoint, thr >>
    /\ IF ~HasKey(r, metric) \/ r.iter = 0 \/ NotRegistered(ot_trials, t)
       THEN /\ outcome' = Outcome("on_trial_result", t, "KeyError")
            /\ UNCHANGED storage
       ELSE /\ storage' = report(storage, ot_trials[t], r.val, r.iter)
            /\ outcome' = Outcome("on_trial_result", t, "ok")

\* --------------------------------------------------------- on_trial_complete
OnTrialComplete(t, r, error) ==
    /\ UNCHANGED << saver, call >>
    /\ UNCHANGED << space, metric, mode, sampler, pruner, ot_trials, ot_study,
                    checkpoint, thr >>
    /\ IF NotRegistered(ot_trials, t)
       THEN /\ outcome' = OutcomeOf("on_trial_complete", t, "KeyError", ArgKey(r), r.val)
            /\ UNCHANGED storage
       ELSE IF ~r.present
       THEN \* result.get on None
            /\ outcome' = OutcomeOf("on_trial_complete", t, "AttributeError", ArgKey(r), r.val)
            /\ UNCHANGED storage
       ELSE /\ storage' = set_trial_state(
                              set_trial_value(storage, ot_trials[t], GetMetric(r, metric)),
                              ot_trials[t], "COMPLETE")
            /\ outcome' = OutcomeOf("on_trial_complete", t, "ok", ArgKey(r), r.val)

\* ----------------------------------------------------- set_search_properties
\* Mutant: the guard is missing.
NeverConfigured(sp) == FALSE
\* line 154: if self._space: return False
AlreadyConfigured(sp) == Truthy(sp)

\* Mutant: metric and mode are stored before the config is converted.
SetSearchPropertiesStoringFirst(m, md, cfg) ==
    /\ UNCHANGED << saver, call >>
    /\ UNCHANGED << sampler, pruner, ot_trials, checkpoint, thr >>
    /\ IF AlreadyConfigured(space)
       THEN /\ outcome' = Outcome("set_search_properties", None, "False")
            /\ UNCHANGED << space, metric, mode, storage, ot_study >>
       ELSE LET conv == convert_search_space(cfg)
            IN  /\ metric' = IF m # None THEN m ELSE metric
                /\ mode' = IF md # None THEN md ELSE mode
                /\ IF conv.res # "ok"
                   THEN /\ outcome' = Outcome("set_search_properties", None, conv.res)
                        /\ UNCHANGED << space, storage, ot_study >>
                   ELSE /\ space' = ListSpace(conv.space)
                        /\ storage' = create_study(storage, md)
                        /\ ot_study' = "Study"
                        /\ outcome' = Outcome("set_search_properties", None, "True")

SetSearchProperties(m, md, cfg) ==
    /\ UNCHANGED << saver, call >>
    /\ UNCHANGED << sampler, pruner, ot_trials, checkpoint, thr >>
    /\ IF AlreadyConfigured(space)
       THEN /\ outcome' = Outcome("set_search_properties", None, "False")
            /\ UNCHANGED << space, metric, mode, storage, ot_study >>
       ELSE LET conv == convert_search_space(cfg)
            IN  IF conv.res # "ok"
                THEN /\ outcome' = Outcome("set_search_properties", None, conv.res)
                     /\ UNCHANGED << space, metric, mode, storage, ot_study >>
                ELSE /\ space' = ListSpace(conv.space)
                     /\ metric' = IF m # None THEN m ELSE metric
                     /\ mode' = IF md # None THEN md ELSE mode
                     /\ storage' = create_study(storage, md)
                     /\ ot_study' = "Study"
                     /\ outcome' = Outcome("set_search_properties", None, "True")

\* ------------------------------------------------------------- save / restore
save_object == [storage |-> storage, pruner |-> pruner, sampler |-> sampler,
                ot_trials |-> ot_trials, ot_study |-> ot_study]

Save ==
    /\ checkpoint' = << save_object >>
    /\ saver' = [space |-> space, metric |-> metric]
    /\ UNCHANGED call
    /\ outcome' = Outcome("save", None, "ok")
    /\ UNCHANGED << space, metric, mode, sampler, pruner, storage, ot_trials,
                    ot_study, thr >>

\* Mutant: the storage is assigned before the file is decoded.
RestoreStorageFirst(readable) ==
    /\ UNCHANGED << space, metric, mode, checkpoint, thr, saver, call >>
    /\ IF checkpoint = << >>
       THEN /\ outcome' = Outcome("restore", None, "FileNotFoundError")
            /\ UNCHANGED << storage, pruner, sampler, ot_trials, ot_study >>
       ELSE IF ~readable
       THEN /\ outcome' = Outcome("restore", None, "UnpicklingError")
            /\ storage' = checkpoint[1].storage
            /\ UNCHANGED << pruner, sampler, ot_trials, ot_study >>
       ELSE /\ storage' = checkpoint[1].storage
            /\ pruner' = checkpoint[1].pruner
            /\ sampler' = checkpoint[1].sampler
            /\ ot_trials' = checkpoint[1].ot_trials
            /\ ot_study' = checkpoint[1].ot_study
            /\ outcome' = Outcome("restore", None, "ok")

\* readable = FALSE: the file exists but pickle.load raises on it (it was
\* truncated or overwritten); nothing is assigned before line 214.
Restore(readable) ==
    /\ UNCHANGED << space, metric, mode, checkpoint, thr, saver, call >>
    /\ IF checkpoint = << >>
       THEN /\ outcome' = Outcome("restore", None, "FileNotFoundError")
            /\ UNCHANGED << storage, pruner, sampler, ot_trials, ot_study >>
       ELSE IF ~readable
       THEN /\ outcome' = Outcome("restore", None, "UnpicklingError")
            /\ UNCHANGED << storage, pruner, sampler, ot_trials, ot_study >>
       ELSE /\ storage' = checkpoint[1].storage
            /\ pruner' = checkpoint[1].pruner
            /\ sampler' = checkpoint[1].sampler
            /\ ot_trials' = checkpoint[1].ot_trials
            /\ ot_study' = checkpoint[1].ot_study
            /\ outcome' = Outcome("restore", None, "ok")

\* ------------------------------------------------------------------- restart
\* The instance of the class docstring (lines 77-79): no space, metric and
\* mode given; the space comes later from tune.run's config.
InitDoc ==
    /\ Init
    /\ space = NoSpace
    /\ metric = "loss"
    /\ mode = "min"

\* The process restarts: the searcher is constructed again with the docstring's
\* arguments; the checkpoint file stays.
Restart ==
    /\ space' = NoSpace
    /\ metric' = "loss"
    /\ mode' = "min"
    /\ sampler' = 0
    /\ pruner' = "NopPruner"
    /\ storage' = EmptyStorage
    /\ ot_trials' = NoTrials
    /\ ot_study' = None
    /\ outcome' = Outcome("init", None, "ok")
    /\ UNCHANGED << checkpoint, thr, saver, call >>

\* --------------------------------------------------------------------- Spec
Next ==
    \/ \E t \in TrialIds : Suggest(t)
    \/ \E t \in TrialIds, r \in Results : OnTrialResult(t, r)
    \/ \E t \in TrialIds, r \in FinalResults, e \in BOOLEAN :
          OnTrialComplete(t, r, e)
    \/ \E m \in {None} \cup MetricNames, md \in {None} \cup Modes, cfg \in Configs :
          SetSearchProperties(m, md, cfg)

\* The searcher with checkpointing (intermediate reports left out).
\* Inputs of the checkpoint specification: one final result, the configs that
\* install a space, the modes that pick either direction.
CkptResults == {Result("loss", 4, 1)}
CkptConfigs == {CfgEmpty, CfgTwo}
CkptModes == {None, "min"}

NextCkpt ==
    \/ \E t \in TrialIds : Suggest(t)
    \/ \E t \in TrialIds, r \in CkptResults : OnTrialComplete(t, r, FALSE)
    \/ \E md \in CkptModes, cfg \in CkptConfigs : SetSearchProperties(None, md, cfg)
    \/ Save
    \/ \E readable \in BOOLEAN : Restore(readable)
    \/ Restart

\* ------------------------------------------- standalone conversion calls
\* convert_search_space is a static method: a caller holds a config ...
InitConv ==
    /\ Constructed
    /\ space = NoSpace
    /\ metric = None
    /\ mode = None
    /\ \E cfg \in ConvConfigs : call = [spec |-> cfg, out |-> NotCalled]

\* ... and calls OptunaSearch.convert_search_space(config) on it.
Convert ==
    /\ call.out = NotCalled
    /\ call' = [call EXCEPT !.out = convert_search_space(call.spec)]
    /\ UNCHANGED << space, metric, mode, sampler, pruner, storage, ot_trials,
                    ot_study, checkpoint, thr, saver, outcome >>

NextConv == Convert
SpecConv == InitConv /\ [][NextConv]_vars

Spec == Init /\ [][Next]_vars
SpecCkpt == InitDoc /\ [][NextCkpt]_vars

\* ------------------------------------------------- suggest, statement by statement
\* Two scheduler threads calling suggest on the same instance: the method
\* holds no lock, so its statements interleave.  thr[th] is the statement
\* thread th executes next, with its trial_id and the ot_trial_id it holds.
At(th, pc) == thr[th].pc = pc
Goto(th, pc, t, num) == thr' = [thr EXCEPT ![th] = [pc |-> pc, tid |-> t, num |-> num]]

\* lines 166-171: the space check.
CBegin(th, t) ==
    /\ UNCHANGED << saver, call >>
    /\ At(th, "idle")
    /\ UNCHANGED << space, metric, mode, sampler, pruner, storage, ot_trials,
                    ot_study, checkpoint >>
    /\ IF ~Truthy(space)
       THEN /\ outcome' = Outcome("suggest", t, "RuntimeError")
            /\ UNCHANGED thr
       ELSE /\ Goto(th, "check", t, 0)
            /\ UNCHANGED outcome

\* line 173: the membership test.
CCheck(th) ==
    /\ UNCHANGED << saver, call >>
    /\ At(th, "check")
    /\ Goto(th, IF NotRegistered(ot_trials, thr[th].tid) THEN "create" ELSE "replay",
            thr[th].tid, 0)
    /\ UNCHANGED << space, metric, mode, sampler, pruner, storage, ot_trials,
                    ot_study, checkpoint, outcome >>

\* lines 174-175: the storage allocates the trial.
CCreate(th) ==
    /\ UNCHANGED << saver, call >>
    /\ At(th, "create")
    /\ UNCHANGED << space, metric, mode, sampler, pruner, ot_trials, ot_study,
                    checkpoint >>
    /\ IF ot_study = None
       THEN /\ outcome' = Outcome("suggest", thr[th].tid, "AttributeError")
            /\ thr' = [thr EXCEPT ![th] = Idle]
            /\ UNCHANGED storage
       ELSE /\ Len(storage.trials) < MaxTrials
            /\ storage' = create_new_trial(storage, thr[th].tid)
            /\ Goto(th, "write", thr[th].tid, NewNumber(storage))
            /\ UNCHANGED outcome

\* lines 176-177: the registry write.
CWrite(th) ==
    /\ UNCHANGED << saver, call >>
    /\ At(th, "write")
    /\ ot_trials' = [ot_trials EXCEPT ![thr[th].tid] = thr[th].num]
    /\ Goto(th, "replay", thr[th].tid, 0)
    /\ UNCHANGED << space, metric, mode, sampler, pruner, storage, ot_study,
                    checkpoint, outcome >>

\* lines 178-186: the registry read and the replay.
CReplay(th) ==
    /\ UNCHANGED << saver, call >>
    /\ At(th, "replay")
    /\ LET num == ot_trials[thr[th].tid]
       IN  /\ Len(storage.trials[num].asks) + Len(space.reqs) <= MaxReplays * Len(space.reqs)
           /\ storage' = Replay(storage, num, space)
    /\ sampler' = sampler + Len(space.reqs)
    /\ thr' = [thr EXCEPT ![th] = Idle]
    /\ outcome' = Outcome("suggest", thr[th].tid, "ok")
    /\ UNCHANGED << space, metric, mode, pruner, ot_trials, ot_study, checkpoint >>

NextConc ==
    \/ \E th \in Threads, t \in TrialIds : CBegin(th, t)
    \/ \E th \in Threads : CCheck(th)
    \/ \E th \in Threads : CCreate(th)
    \/ \E th \in Threads : CWrite(th)
    \/ \E th \in Threads : CReplay(th)

SpecConc == Init /\ [][NextConc]_vars

\* ================================================================== properties
TrialsFor(st, t) == {i \in 1..Len(st.trials) : st.trials[i].forId = t}
Registered(reg) == {t \in TrialIds : reg[t] # 0}
AllIdle == \A th \in Threads : thr[th].pc = "idle"
\* a is one or more whole copies of reqs, in order.
IsReplays(a, reqs) ==
    /\ Len(reqs) > 0
    /\ Len(a) >= Len(reqs)
    /\ Len(a) % Len(reqs) = 0
    /\ \A j \in 1..Len(a) : a[j] = reqs[((j - 1) % Len(reqs)) + 1]

\* C1: however often suggest is called with a trial_id, the registry holds
\* exactly one handle for it and the storage exactly one trial created for it;
\* the registry holds one entry per suggested trial_id and nothing else.
C1_OneHandlePerTrialId ==
    /\ \A t \in TrialIds :
          /\ Cardinality(TrialsFor(storage, t)) = IF t \in Registered(ot_trials) THEN 1 ELSE 0
          /\ t \in Registered(ot_trials) => TrialsFor(storage, t) = {ot_trials[t]}
    /\ Cardinality(Registered(ot_trials)) = Len(storage.trials)

\* Witness of C1: suggest("t") has run twice (two replays in the log) and the
\* registry and the storage still hold one handle.
C1_Witness ==
    \E t \in TrialIds :
        /\ Registered(ot_trials) = {t}
        /\ Len(storage.trials) = 1
        /\ Len(storage.trials[ot_trials[t]].asks) = 2 * Len(space.reqs)
        /\ outcome = Outcome("suggest", t, "ok")

\* C2 as stated: every handle has the space replayed against it exactly once,
\* in space order; a later suggest for the same trial_id does not replay again.
C2_SuggestedExactlyOnce ==
    \A i \in 1..Len(storage.trials) : storage.trials[i].asks = space.reqs

\* C2 amended: every suggest call replays the whole space, request by request
\* in space order, against the one handle of its trial_id, so the calls made
\* on a handle are one or more whole in-order copies of the space.
C2_ReplaysInSpaceOrder ==
    \A i \in 1..Len(storage.trials) : IsReplays(storage.trials[i].asks, space.reqs)

\* Witness of C2: a two-request space has been replayed twice on one handle.
C2_Witness ==
    \E i \in 1..Len(storage.trials) :
        /\ Len(space.reqs) = 2
        /\ storage.trials[i].asks = space.reqs \o space.reqs

\* C3: once the concurrent suggest calls have returned, the storage holds at
\* most one trial per trial_id, the one the registry maps it to.
C3_ConcurrentSuggestOneHandle ==
    AllIdle => \A t \in TrialIds :
                  /\ Cardinality(TrialsFor(storage, t)) <= 1
                  /\ t \in Registered(ot_trials) => TrialsFor(storage, t) = {ot_trials[t]}

\* C4: a suggest call made while the space is None or empty raises the
\* RuntimeError and leaves registry, storage and study as they were.
C4_SuggestWithoutSpaceFails ==
    [][(outcome'.op = "suggest" /\ space.reqs = << >>)
          => /\ outcome'.res = "RuntimeError"
             /\ UNCHANGED << ot_trials, storage, ot_study >>]_vars

\* Witness of C4: suggest has raised on an instance that never had a space.
C4_Witness ==
    /\ outcome.op = "suggest"
    /\ outcome.res = "RuntimeError"
    /\ ~space.set
    /\ ot_trials = NoTrials
    /\ storage = EmptyStorage
    /\ ot_study = None

\* C5: on_trial_result and on_trial_complete for a trial_id without a handle
\* raise KeyError and leave the registry and the storage as they were.
C5_UnknownTrialIdRaises ==
    [][(outcome'.op \in {"on_trial_result", "on_trial_complete"}
           /\ ot_trials[outcome'.arg] = 0)
          => /\ outcome'.res = "KeyError"
             /\ UNCHANGED << ot_trials, storage >>]_vars

\* Witness of C5: on_trial_complete has raised KeyError for an unknown
\* trial_id while another trial_id has a handle.
C5_Witness ==
    /\ outcome.op = "on_trial_complete"
    /\ outcome.res = "KeyError"
    /\ ot_trials[outcome.arg] = 0
    /\ Registered(ot_trials) # {}

\* C6: on_trial_complete for a registered trial_id with a result mapping that
\* lacks the metric key returns normally, with no value and state COMPLETE.
C6_CompleteWithoutMetricKey ==
    (/\ outcome.op = "on_trial_complete"
     /\ ot_trials[outcome.arg] # 0
     /\ outcome.key # "absent"
     /\ ~(metric # None /\ outcome.key = metric))
    => /\ outcome.res = "ok"
       /\ storage.trials[ot_trials[outcome.arg]].state = "COMPLETE"
       /\ storage.trials[ot_trials[outcome.arg]].value = NoValue

\* Witness of C6: with a metric configured, a trial has been completed
\* without a value.
C6_Witness ==
    /\ outcome.op = "on_trial_complete"
    /\ outcome.res = "ok"
    /\ metric = "loss" /\ outcome.key = "none"
    /\ storage.trials[ot_trials[outcome.arg]].state = "COMPLETE"
    /\ storage.trials[ot_trials[outcome.arg]].value = NoValue

\* C7: on_trial_complete for a registered trial_id never raises, and leaves
\* the handle COMPLETE, also when the result argument is absent.
C7_CompleteNeverRaises ==
    (outcome.op = "on_trial_complete" /\ ot_trials[outcome.arg] # 0)
        => /\ outcome.res = "ok"
           /\ storage.trials[ot_trials[outcome.arg]].state = "COMPLETE"

\* C8: on_trial_complete for a registered trial_id with a result carrying the
\* metric value v leaves the handle COMPLETE with value v, whatever was
\* reported before.
C8_CompleteRecordsFinalValue ==
    (/\ outcome.op = "on_trial_complete"
     /\ ot_trials[outcome.arg] # 0
     /\ metric # None /\ outcome.key = metric)
    => /\ outcome.res = "ok"
       /\ storage.trials[ot_trials[outcome.arg]].state = "COMPLETE"
       /\ storage.trials[ot_trials[outcome.arg]].value = outcome.val

\* Witness of C8: 0.5 was reported at step 1 and the trial completed with 0.4.
C8_Witness ==
    /\ outcome.op = "on_trial_complete"
    /\ outcome.res = "ok"
    /\ metric = "loss" /\ outcome.key = "loss" /\ outcome.val = 4
    /\ storage.trials[ot_trials[outcome.arg]].reports[1] = 5
    /\ storage.trials[ot_trials[outcome.arg]].state = "COMPLETE"
    /\ storage.trials[ot_trials[outcome.arg]].value = 4

C10_StudyCreatedOnce ==
    [][(outcome'.op = "set_search_properties" /\ outcome'.res = "True")
          => ot_study = None]_vars

\* The five attributes restore assigns, and the same five as stored in the file.
Five == << storage, pruner, sampler, ot_trials, ot_study >>
FileFive ==
    << checkpoint[1].storage, checkpoint[1].pruner, checkpoint[1].sampler,
       checkpoint[1].ot_trials, checkpoint[1].ot_study >>

\* C11: restore is all or nothing. A restore that returns leaves storage,
\* pruner, sampler, registry and study all equal to the file's; a restore that
\* raises (missing file, undecodable file) leaves all five as they were.
C11_RestoreAllOrNothing ==
    [][outcome'.op = "restore" =>
          \/ /\ outcome'.res = "ok"
             /\ checkpoint # << >>
             /\ Five' = FileFive
          \/ /\ outcome'.res \in {"FileNotFoundError", "UnpicklingError"}
             /\ Five' = Five]_vars

\* An undecodable file met an instance whose storage and registry differ from
\* the file's, and the restore raised.
C11_Witness ==
    /\ outcome.op = "restore"
    /\ outcome.res = "UnpicklingError"
    /\ checkpoint # << >>
    /\ checkpoint[1].storage # storage
    /\ checkpoint[1].ot_trials # ot_trials

\* Two spaces that suggest cannot tell apart: both fail the check of line 166,
\* or both pass it and replay the same requests.
SameSpace(a, b) ==
    /\ Truthy(a) = Truthy(b)
    /\ Truthy(a) => a.reqs = b.reqs

\* C12: round trip through a fresh instance. When a checkpoint is restored
\* into a just constructed searcher, the result has the space and the metric of
\* the instance that saved (so suggest and on_trial_complete answer alike), and
\* the five checkpointed attributes of the file.
C12_RestoreIntoFreshInstance ==
    [][(outcome.op = "init" /\ outcome'.op = "restore" /\ outcome'.res = "ok") =>
          /\ SameSpace(space', saver.space)
          /\ metric' = saver.metric
          /\ Five' = FileFive]_vars

\* The resolution table: the pairings that have a rule, and the request each
\* rule gives.
InTable(d) ==
    \/ d.dtype \in {"Float", "Integer"} /\ d.sampler \in {"Uniform", "LogUniform"}
    \/ d.dtype = "Categorical" /\ d.sampler = "Uniform"
TableRequest(d) ==
    IF d.dtype = "Float" /\ d.sampler = "LogUniform"
        THEN Request("suggest_loguniform", d.name, d.lower, d.upper, 0, FALSE)
    ELSE IF d.dtype = "Float" /\ d.q # 0
        THEN Request("suggest_discrete_uniform", d.name, d.lower, d.upper, d.q, FALSE)
    ELSE IF d.dtype = "Float"
        THEN Request("suggest_uniform", d.name, d.lower, d.upper, 0, FALSE)
    ELSE IF d.dtype = "Integer" /\ d.sampler = "LogUniform"
        THEN Request("suggest_int", d.name, d.lower, d.upper, 0, TRUE)
    ELSE IF d.dtype = "Integer"
        THEN Request("suggest_int", d.name, d.lower, d.upper,
                     IF d.q = 0 THEN 1 ELSE d.q, FALSE)
    ELSE Request("suggest_categorical", d.name, 0, 0, 0, FALSE)
Called == call.out # NotCalled
CallDomains == domain_vars(call.spec)
CallHasGrid == grid_vars(call.spec) # << >>

\* C13: for a config without grid parameters whose domains are all in the
\* resolution table, convert_search_space returns one request per domain, in
\* the config's order, each the request the table gives for that domain.
C13_ResolutionTable ==
    (Called /\ ~CallHasGrid /\ \A i \in 1..Len(CallDomains) : InTable(CallDomains[i])) =>
        /\ call.out.res = "ok"
        /\ Len(call.out.space) = Len(CallDomains)
        /\ \A i \in 1..Len(CallDomains) :
              call.out.space[i] = TableRequest(CallDomains[i])

\* A returned list of two requests: an unquantized Integer+Uniform (step 1)
\* followed by a quantized Float+LogUniform (quantization dropped).
C13_Witness ==
    /\ Called
    /\ call.out.res = "ok"
    /\ Len(call.spec) = MaxParams
    /\ Len(call.out.space) = Len(call.spec)
    /\ \E i \in 1..Len(call.spec) :
          call.spec[i].dtype = "Integer" /\ call.spec[i].sampler = "Uniform"
          /\ call.spec[i].q = 0 /\ call.out.space[i].step = 1
    /\ \E i \in 1..Len(call.spec) :
          call.spec[i].dtype = "Float" /\ call.spec[i].sampler = "LogUniform"
          /\ call.spec[i].q # 0 /\ call.out.space[i].fn = "suggest_loguniform"

\* C14: for a config without grid parameters that holds a domain outside the
\* resolution table, convert_search_space raises, returns no list, and the
\* message names the domain type and the distribution type of the first such
\* domain, quantized or not.
C14_UnsupportedNamesBothTypes ==
    (Called /\ ~CallHasGrid /\ \E i \in 1..Len(CallDomains) : ~InTable(CallDomains[i])) =>
        LET i == CHOOSE i \in 1..Len(CallDomains) :
                    ~InTable(CallDomains[i])
                    /\ \A k \in 1..(i - 1) : InTable(CallDomains[k])
        IN  /\ call.out.res = "ValueError"
            /\ call.out.space = << >>
            /\ call.out.msg = << CallDomains[i].dtype, CallDomains[i].sampler >>

\* C15: a config with a grid parameter raises the grid error and returns no
\* list, whatever else it holds; an unsupported domain in the same config is
\* never reached.
C15_GridAlwaysFails ==
    (Called /\ CallHasGrid) =>
        /\ call.out.res = "ValueError"
        /\ call.out.msg = GridMessage
        /\ call.out.space = << >>

\* An unsupported domain ahead of a grid parameter: the grid error is raised.
C15_Witness ==
    /\ Called
    /\ Len(call.spec) = MaxParams
    /\ IsDomain(call.spec[1]) /\ ~InTable(call.spec[1])
    /\ IsGrid(call.spec[Len(call.spec)])
    /\ call.out.msg = GridMessage

\* C16: in every state, save and restore included, two registered trial ids
\* hold different storage trial numbers, and the storage trial a registered id
\* holds was created for that id and for no other.
C16_DistinctHandles ==
    /\ \A t, u \in Registered(ot_trials) : t # u => ot_trials[t] # ot_trials[u]
    /\ \A t \in Registered(ot_trials) :
          /\ ot_trials[t] <= Len(storage.trials)
          /\ storage.trials[ot_trials[t]].forId = t

\* A restore brought back a registry with a handle for each trial id.
C16_Witness ==
    /\ outcome.op = "restore"
    /\ outcome.res = "ok"
    /\ Registered(ot_trials) = TrialIds

\* C17: a storage trial leaves RUNNING only in a step that is an
\* on_trial_complete call for the trial id it was created for; suggest,
\* on_trial_result and completions of other trial ids leave it RUNNING.
C17_ActiveUntilOwnCompletion ==
    [][\A i \in 1..Len(storage.trials) :
          (storage.trials[i].state = "RUNNING" /\ storage'.trials[i].state # "RUNNING") =>
              /\ outcome'.op = "on_trial_complete"
              /\ outcome'.arg = storage.trials[i].forId]_vars

\* One trial was completed while another, suggested and reported on, is still
\* RUNNING.
C17_Witness ==
    /\ outcome.op = "on_trial_complete"
    /\ \E i, k \in 1..Len(storage.trials) :
          /\ storage.trials[i].forId = outcome.arg
          /\ storage.trials[i].state = "COMPLETE"
          /\ storage.trials[k].forId # outcome.arg
          /\ storage.trials[k].state = "RUNNING"
          /\ storage.trials[k].asks # << >>
          /\ \E s \in Steps : storage.trials[k].reports[s] # NoValue

\* C18: a set_search_properties call that raises from the conversion installs
\* nothing: space, study, storage, metric, mode and registry are as before, the
\* space is still unset or empty, and the next set_search_properties call is
\* not refused (it returns True or raises from its own conversion).
C18_FailedConfigureInstallsNothing ==
    [][/\ (outcome'.op = "set_search_properties" /\ outcome'.res = "ValueError") =>
              /\ ~Truthy(space')
              /\ UNCHANGED << space, metric, mode, storage, ot_trials, ot_study, sampler >>
       /\ (/\ outcome.op = "set_search_properties" /\ outcome.res = "ValueError"
           /\ outcome'.op = "set_search_properties") =>
              outcome'.res \in {"True", "ValueError"}]_vars

\* A call has just raised on an instance that has no space, no study, no
\* metric and no trial.
C18_Witness ==
    /\ outcome.op = "set_search_properties"
    /\ outcome.res = "ValueError"
    /\ space = NoSpace
    /\ ot_study = None
    /\ metric = None
    /\ storage = EmptyStorage

\* C19: in every state, save and restore included, a non-empty space comes
\* with a study, so suggest has a study to create its trial in.
C19_SpaceImpliesStudy == Truthy(space) => ot_study # None

\* C20: whenever a study exists its direction is the one of the mode the
\* searcher holds: minimize for "min", maximize for "max".
C20_DirectionMatchesMode ==
    ot_study # None =>
        /\ mode = "min" => storage.study = "minimize"
        /\ mode = "max" => storage.study = "maximize"

====
